---------------------------- MODULE Spec2Model ----------------------------
(***************************************************************************)
(* New England Airport Explorer (src/NewEnglandAirportExplorer.py).        *)
(*                                                                         *)
(* The program is a Streamlit script.  Streamlit executes the script from  *)
(* top to bottom once when the page is opened and once more for every      *)
(* widget change; each execution calls main(), which calls load_data(),    *)
(* returns early on an empty table and otherwise reads the widgets, calls  *)
(* filter_data() and renders four charts and the metrics.                  *)
(*                                                                         *)
(* A DataFrame is modelled as a sequence of rows (records), a float that   *)
(* may be NaN as a record [nan, v].                                        *)
(***************************************************************************)
EXTENDS Integers, Sequences, FiniteSets

VARIABLES
    csv_file,       \* new_england_airports.csv: [exists, rows]
    widgets,        \* Streamlit session state of the four sidebar widgets
    data,           \* main: data = load_data()
    filtered_data,  \* main: first result of filter_data(...)
    filtered_count, \* main: second result of filter_data(...)
    radar_counts,   \* create_radar_chart: counts (region -> Count)
    metrics,        \* display_metrics: the four numbers written
    calls,          \* functions called by the current execution of main, in order
    errors,         \* st.error messages of the current execution
    runs,           \* executions of the script in this session
    loads,          \* executions of load_data in this session
    filters         \* executions of filter_data in this session

vars == <<csv_file, widgets, data, filtered_data, filtered_count, radar_counts,
          metrics, calls, errors, runs, loads, filters>>

----------------------------------------------------------------------------
(* Bounds of the model *)

\* longest csv file explored (data rows)
MaxRows == 3

\* executions of the script in one session (the first one plus one per widget change)
MaxRuns == 2

----------------------------------------------------------------------------
(* Values *)

Range(s) == {s[i] : i \in 1..Len(s)}

\* a float: NaN (also what pandas stores for None in a float column) or a number
NaN == [nan |-> TRUE, v |-> 0]
Num(x) == [nan |-> FALSE, v |-> x]

\* x > 0 on a float: False for NaN
gt(x, y) == ~x.nan /\ x.v > y

\* x <= y on a float: False for NaN
le(x, y) == ~x.nan /\ x.v <= y

\* the value Series.map leaves for a key the dict does not hold
NaNRegion == "nan"

STATES ==
    [c \in {"US-CT", "US-ME", "US-MA", "US-NH", "US-RI", "US-VT"} |->
        CASE c = "US-CT" -> "Connecticut"
          [] c = "US-ME" -> "Maine"
          [] c = "US-MA" -> "Massachusetts"
          [] c = "US-NH" -> "New Hampshire"
          [] c = "US-RI" -> "Rhode Island"
          [] c = "US-VT" -> "Vermont"]

region_options == {STATES[c] : c \in DOMAIN STATES}

airport_types == {"small_airport", "medium_airport", "large_airport"}

SliderMin == 0
SliderMax == 3000
SliderDefault == 2000

\* the slider positions explored
SliderStops == {SliderMin, 500, SliderDefault, SliderMax}

\* the regions the user adds to or removes from the multiselect
ToggledRegions == {"Connecticut", "Maine", "Vermont"}

\* the csv rows explored (without their id)
SampleRows ==
    { [iso_region |-> "US-CT", type |-> "large_airport",  scheduled_service |-> "yes", elevation_ft |-> Num(500)],
      [iso_region |-> "US-ME", type |-> "small_airport",  scheduled_service |-> "no",  elevation_ft |-> Num(2500)],
      [iso_region |-> "US-VT", type |-> "medium_airport", scheduled_service |-> "no",  elevation_ft |-> Num(100)],
      [iso_region |-> "US-VT", type |-> "medium_airport", scheduled_service |-> "no",  elevation_ft |-> Num(-5)],
      [iso_region |-> "US-ME", type |-> "small_airport",  scheduled_service |-> "yes", elevation_ft |-> Num(0)],
      [iso_region |-> "US-CT", type |-> "small_airport",  scheduled_service |-> "yes", elevation_ft |-> NaN],
      [iso_region |-> "US-NY", type |-> "large_airport",  scheduled_service |-> "yes", elevation_ft |-> Num(100)],
      [iso_region |-> "US-ME", type |-> "heliport",       scheduled_service |-> "no",  elevation_ft |-> Num(500)] }

\* row i of the file gets id i (the index column is a key)
WithIds(c) ==
    [i \in 1..Len(c) |->
        [id |-> i, iso_region |-> c[i].iso_region, type |-> c[i].type,
         scheduled_service |-> c[i].scheduled_service,
         elevation_ft |-> c[i].elevation_ft]]

NoFile == [exists |-> FALSE, rows |-> <<>>]

CsvFiles ==
    {NoFile} \cup
    {[exists |-> TRUE, rows |-> WithIds(c)] :
        c \in UNION {[1..n -> SampleRows] : n \in 0..MaxRows}}


----------------------------------------------------------------------------
(* load_data *)

\* keep_regions without the region allowlist
keep_regions_all(rows) == rows

\* data[data["iso_region"].isin(STATES.keys())]
keep_regions(rows) == SelectSeq(rows, LAMBDA r : r.iso_region \in DOMAIN STATES)

\* keep_types without the category allowlist
keep_types_all(rows) == rows

\* data[data["type"].isin(["small_airport", "medium_airport", "large_airport"])]
keep_types(rows) == SelectSeq(rows, LAMBDA r : r.type \in airport_types)

\* data["iso_region"].map(STATES): a code the dict does not hold maps to NaN
map_regions(rows) ==
    [i \in 1..Len(rows) |->
        [rows[i] EXCEPT !.iso_region =
            IF @ \in DOMAIN STATES THEN STATES[@] ELSE NaNRegion]]

\* every arrangement of the rows of S in non-decreasing elevation
RECURSIVE Ascending(_)
Ascending(S) ==
    IF S = {} THEN {<<>>}
    ELSE UNION { {<<r>> \o t : t \in Ascending(S \ {r})} :
                 r \in {m \in S : \A q \in S : m.elevation_ft.v <= q.elevation_ft.v} }

\* data.sort_values(by="elevation_ft"): ascending, NaN last (na_position="last").
\* The default kind is quicksort, which is not stable: rows of equal elevation
\* come out in any order.  The NaN rows are appended in their original order.
sort_values(rows) ==
    { a \o SelectSeq(rows, LAMBDA r : r.elevation_ft.nan) :
        a \in Ascending({r \in Range(rows) : ~r.elevation_ft.nan}) }

\* clean with x >= 0 for x > 0
clean_keeps_zero(x) == IF ~x.nan /\ x.v >= 0 THEN x ELSE NaN

\* lambda x: x if x > 0 else None   (None is stored as NaN)
clean(x) == IF gt(x, 0) THEN x ELSE NaN

\* data["elevation_ft"].apply(clean)
clean_elevation(rows) ==
    [i \in 1..Len(rows) |-> [rows[i] EXCEPT !.elevation_ft = clean(@)]]

\* the results load_data() can return for the file, each with the st.error
\* messages it wrote
load_data(file) ==
    IF ~file.exists
    THEN {[data |-> <<>>, errors |-> <<"File not found">>]}
    ELSE {[data |-> clean_elevation(s), errors |-> <<>>] :
            s \in sort_values(map_regions(keep_types(keep_regions(file.rows))))}

----------------------------------------------------------------------------
(* filter_data *)

\* filter_data with elevation_ft < elevation for <=
filter_data_strict(d, regions, elevation, types, service_filter) ==
    LET filtered ==
            SelectSeq(d, LAMBDA r :
                /\ r.iso_region \in regions
                /\ ~r.elevation_ft.nan /\ r.elevation_ft.v < elevation
                /\ r.type \in types
                /\ r.scheduled_service \in service_filter)
    IN  [data |-> filtered, count |-> Len(filtered)]

\* filter_data with elevation_ft >= elevation for <=
filter_data_floor(d, regions, elevation, types, service_filter) ==
    LET filtered ==
            SelectSeq(d, LAMBDA r :
                /\ r.iso_region \in regions
                /\ ~r.elevation_ft.nan /\ r.elevation_ft.v >= elevation
                /\ r.type \in types
                /\ r.scheduled_service \in service_filter)
    IN  [data |-> filtered, count |-> Len(filtered)]

\* the rows of data that satisfy the four conditions, and their number
filter_data(d, regions, elevation, types, service_filter) ==
    LET filtered ==
            SelectSeq(d, LAMBDA r :
                /\ r.iso_region \in regions
                /\ le(r.elevation_ft, elevation)
                /\ r.type \in types
                /\ r.scheduled_service \in service_filter)
    IN  [data |-> filtered, count |-> Len(filtered)]

----------------------------------------------------------------------------
(* charts and metrics *)

\* data.groupby("iso_region").size(): one entry per region present (NaN keys
\* are dropped by groupby)
groupby_size(d) ==
    [g \in {r.iso_region : r \in Range(d)} \ {NaNRegion} |->
        Cardinality({i \in 1..Len(d) : d[i].iso_region = g})]

\* data["type"].value_counts(): one entry per type present
value_counts(d) ==
    [t \in {r.type : r \in Range(d)} |->
        Cardinality({i \in 1..Len(d) : d[i].type = t})]

\* type_counts.get(key, 0)
get(counts, key) == IF key \in DOMAIN counts THEN counts[key] ELSE 0

\* display_metrics that looks the medium count up under a key value_counts
\* never holds
display_metrics_typo(d) ==
    LET type_counts == value_counts(d)
    IN  [total  |-> Len(d),
         large  |-> get(type_counts, "large_airport"),
         medium |-> get(type_counts, "medium"),
         small  |-> get(type_counts, "small_airport")]

display_metrics(d) ==
    LET type_counts == value_counts(d)
    IN  [total  |-> Len(d),
         large  |-> get(type_counts, "large_airport"),
         medium |-> get(type_counts, "medium_airport"),
         small  |-> get(type_counts, "small_airport")]

NoMetrics == [total |-> 0, large |-> 0, medium |-> 0, small |-> 0]

----------------------------------------------------------------------------
(* main *)

WidgetDefaults ==
    [selected_regions |-> region_options,
     max_elevation    |-> SliderDefault,
     selected_types   |-> airport_types,
     commercial_only  |-> FALSE]

\* ["yes"] if commercial_only else ["yes", "no"]
service_filter(commercial_only) ==
    IF commercial_only THEN {"yes"} ELSE {"yes", "no"}

Charts ==
    <<"create_map", "create_elevation_chart", "create_radar_chart",
      "create_boxplot", "display_metrics">>

\* main without the early return on an empty table
main_without_return(ld, w) ==
    LET f == filter_data(ld.data, w.selected_regions, w.max_elevation,
                         w.selected_types, service_filter(w.commercial_only))
    IN  [data |-> ld.data, errors |-> ld.errors,
         calls |-> <<"load_data", "filter_data">> \o Charts,
         filtered_data |-> f.data, filtered_count |-> f.count,
         radar_counts |-> groupby_size(f.data),
         metrics |-> display_metrics(f.data)]

\* one execution of main, given what load_data returned and the widget values
main(ld, w) ==
    IF ld.data = <<>>   \* data.empty
    THEN [data |-> ld.data, errors |-> ld.errors,
          calls |-> <<"load_data">>,
          filtered_data |-> <<>>, filtered_count |-> 0,
          radar_counts |-> <<>>, metrics |-> NoMetrics]
    ELSE LET f == filter_data(ld.data, w.selected_regions, w.max_elevation,
                              w.selected_types, service_filter(w.commercial_only))
         IN  [data |-> ld.data, errors |-> ld.errors,
              calls |-> <<"load_data", "filter_data">> \o Charts,
              filtered_data |-> f.data, filtered_count |-> f.count,
              radar_counts |-> groupby_size(f.data),
              metrics |-> display_metrics(f.data)]

Times(name, s) == Cardinality({i \in 1..Len(s) : s[i] = name})

\* Streamlit executes the script with the widget values w
Run(w) ==
    \E ld \in load_data(csv_file) :
        LET out == main(ld, w) IN
        /\ data' = out.data
        /\ errors' = out.errors
        /\ calls' = out.calls
        /\ filtered_data' = out.filtered_data
        /\ filtered_count' = out.filtered_count
        /\ radar_counts' = out.radar_counts
        /\ metrics' = out.metrics
        /\ runs' = runs + 1
        /\ loads' = loads + Times("load_data", out.calls)
        /\ filters' = filters + Times("filter_data", out.calls)
        /\ widgets' = w
        /\ UNCHANGED csv_file

\* the sidebar widgets exist once an execution got past the early return
WidgetsShown == runs >= 1 /\ "filter_data" \in Range(calls)

Init ==
    /\ csv_file \in CsvFiles
    /\ widgets = WidgetDefaults
    /\ data = <<>>
    /\ filtered_data = <<>>
    /\ filtered_count = 0
    /\ radar_counts = <<>>
    /\ metrics = NoMetrics
    /\ calls = <<>>
    /\ errors = <<>>
    /\ runs = 0
    /\ loads = 0
    /\ filters = 0

\* the page is opened: the script runs with the widgets at their defaults
FirstRun ==
    /\ runs = 0
    /\ Run(widgets)

\* the user adds a region to, or removes one from, the Regions multiselect
RegionsChange ==
    /\ WidgetsShown /\ runs < MaxRuns
    /\ \E g \in ToggledRegions :
        Run([widgets EXCEPT !.selected_regions =
                IF g \in @ THEN @ \ {g} ELSE @ \cup {g}])

\* the user moves the Maximum Elevation slider
SliderChange ==
    /\ WidgetsShown /\ runs < MaxRuns
    /\ \E e \in SliderStops \ {widgets.max_elevation} :
        Run([widgets EXCEPT !.max_elevation = e])

\* the user adds a type to, or removes one from, the Airport Types multiselect
TypesChange ==
    /\ WidgetsShown /\ runs < MaxRuns
    /\ \E t \in airport_types :
        Run([widgets EXCEPT !.selected_types =
                IF t \in @ THEN @ \ {t} ELSE @ \cup {t}])

\* the user ticks or unticks Only Show Commercial Airports
CheckboxChange ==
    /\ WidgetsShown /\ runs < MaxRuns
    /\ Run([widgets EXCEPT !.commercial_only = ~@])

Next ==
    \/ FirstRun
    \/ RegionsChange
    \/ SliderChange
    \/ TypesChange
    \/ CheckboxChange

Spec == Init /\ [][Next]_vars

----------------------------------------------------------------------------
(* Properties *)

\* the current execution of main called filter_data
Filtered == "filter_data" \in Range(calls)

\* the row of the csv file that row r of a table was read from
Stored(r) == csv_file.rows[r.id]

\* the stored elevation is a number that is not strictly positive
StoredNonPositive(r) ==
    ~Stored(r).elevation_ft.nan /\ Stored(r).elevation_ft.v <= 0

\* the row survives both allowlists of load_data
Recognized(row) == row.iso_region \in DOMAIN STATES /\ row.type \in airport_types

RECURSIVE SumOver(_, _)
SumOver(f, S) ==
    IF S = {} THEN 0
    ELSE LET x == CHOOSE y \in S : TRUE IN f[x] + SumOver(f, S \ {x})

\* region, category and service flag of r are allowed by the widgets
AllowedButElevation(r) ==
    /\ r.iso_region \in widgets.selected_regions
    /\ r.type \in widgets.selected_types
    /\ r.scheduled_service \in service_filter(widgets.commercial_only)

\* C1: whenever main has filtered, every returned row is a row of the table
\* with an allowed region, a present elevation <= the ceiling, an allowed
\* category and an allowed service flag; every row of the table with a
\* present elevation that satisfies all four is returned; and the returned
\* count is the number of returned rows.
FilterConjunction ==
    Filtered =>
        /\ \A r \in Range(filtered_data) :
            /\ r \in Range(data)
            /\ AllowedButElevation(r)
            /\ ~r.elevation_ft.nan
            /\ r.elevation_ft.v <= widgets.max_elevation
        /\ \A r \in Range(data) :
            (/\ AllowedButElevation(r)
             /\ ~r.elevation_ft.nan
             /\ r.elevation_ft.v <= widgets.max_elevation)
                => r \in Range(filtered_data)
        /\ filtered_count = Len(filtered_data)
        /\ filtered_count = Cardinality(Range(filtered_data))

\* a filter that returns a row whose elevation equals the ceiling and leaves
\* out another row
FilterConjunctionWitness ==
    /\ Filtered
    /\ filtered_count >= 1
    /\ filtered_count < Len(data)
    /\ \E r \in Range(filtered_data) : r.elevation_ft.v = widgets.max_elevation

\* C2: a row whose stored elevation is non-positive has a missing elevation
\* in the loaded table and is still returned by the filter when its region,
\* category and service flag are allowed.
MissingElevationPassesCeiling ==
    Filtered =>
        \A r \in Range(data) :
            StoredNonPositive(r) =>
                /\ r.elevation_ft.nan
                /\ AllowedButElevation(r) => r \in Range(filtered_data)

\* C3: when the csv file is absent, load_data writes the error and returns an
\* empty table, and main calls nothing after load_data: no filter, no chart,
\* no metric.
MissingSourceSkipsPipeline ==
    (runs >= 1 /\ ~csv_file.exists) =>
        /\ data = <<>>
        /\ errors # <<>>
        /\ calls = <<"load_data">>
        /\ filters = 0
        /\ filtered_data = <<>> /\ filtered_count = 0
        /\ radar_counts = <<>>
        /\ metrics = NoMetrics

\* the script has run on an absent file
MissingSourceWitness ==
    runs >= 1 /\ ~csv_file.exists /\ loads = 1

\* C4: no row of the loaded table carries a present elevation <= 0.
ElevationNormalized ==
    \A r \in Range(data) : r.elevation_ft.nan \/ r.elevation_ft.v > 0

\* a loaded table with a row stored as 0, a row stored negative and a row
\* whose positive elevation is kept
ElevationNormalizedWitness ==
    /\ \E r \in Range(data) : StoredNonPositive(r) /\ Stored(r).elevation_ft.v = 0
    /\ \E r \in Range(data) : StoredNonPositive(r) /\ Stored(r).elevation_ft.v < 0
    /\ \E r \in Range(data) : ~r.elevation_ft.nan

\* C5: in the loaded table the rows with a present elevation are in
\* non-decreasing order and all rows with a missing elevation are on the same
\* side of them (all before every present row, or all after).
SortedWithMissingTogether ==
    LET present(i) == ~data[i].elevation_ft.nan
        I == 1..Len(data)
    IN  /\ \A i, j \in I :
            (i < j /\ present(i) /\ present(j))
                => data[i].elevation_ft.v <= data[j].elevation_ft.v
        /\ \/ \A i, j \in I : (~present(i) /\ present(j)) => i < j
           \/ \A i, j \in I : (~present(i) /\ present(j)) => i > j

\* C6: every row of the loaded table has the full state name its stored
\* region code maps to, one of the six, and one of the three categories; a
\* stored row with another region code or category is not in the table.
RegionCategoryClosure ==
    /\ \A r \in Range(data) :
        /\ r.iso_region \in region_options
        /\ Stored(r).iso_region \in DOMAIN STATES
        /\ r.iso_region = STATES[Stored(r).iso_region]
        /\ r.type \in airport_types
        /\ r.type = Stored(r).type
    /\ \A i \in 1..Len(csv_file.rows) :
        ~Recognized(csv_file.rows[i]) => \A r \in Range(data) : r.id # i

\* a loaded table that kept a row and dropped one row for its region code
\* and one for its category
RegionCategoryClosureWitness ==
    /\ runs >= 1
    /\ data # <<>>
    /\ \E i \in 1..Len(csv_file.rows) :
        csv_file.rows[i].iso_region \notin DOMAIN STATES
    /\ \E i \in 1..Len(csv_file.rows) :
        csv_file.rows[i].type \notin airport_types

AggregationConsistent ==
    Filtered =>
        /\ SumOver(radar_counts, DOMAIN radar_counts) = filtered_count
        /\ metrics.large + metrics.medium + metrics.small = filtered_count
        /\ metrics.total = filtered_count

\* a filtered result with rows of two regions, a category with rows and a
\* category with none
AggregationConsistentWitness ==
    /\ Filtered
    /\ Cardinality(DOMAIN radar_counts) >= 2
    /\ metrics.medium >= 1
    /\ metrics.large = 0
    /\ metrics.small >= 1

\* C9: in a session load_data runs once, and filter_data once per execution
\* of the script: a widget change does not run load_data again.
LoaderRunsOnce ==
    runs >= 1 =>
        /\ loads = 1
        /\ Filtered => filters = runs

\* C10: main calls filter_data, the four charts and the metrics if and only
\* if the loaded table has a row; a file that is present but has no row with
\* a recognized region code and category makes main stop after load_data,
\* as an absent file does, and no error message is written.
PipelineIffRows ==
    runs >= 1 =>
        /\ (data # <<>>) <=> (calls = <<"load_data", "filter_data">> \o Charts)
        /\ (data = <<>>) <=> (calls = <<"load_data">>)
        /\ (data # <<>>) <=>
            \E i \in 1..Len(csv_file.rows) : Recognized(csv_file.rows[i])
        /\ (csv_file.exists /\ data = <<>>) => (errors = <<>> /\ filters = 0)

\* the script has run on a file that is present, has rows, and none survives
PipelineIffRowsWitness ==
    /\ runs >= 1
    /\ csv_file.exists
    /\ Len(csv_file.rows) >= 2
    /\ data = <<>>
    /\ calls = <<"load_data">>

=============================================================================
